---- MODULE Spec2Model ----
(***************************************************************************)
(* Stop line module of the behavior velocity planner                       *)
(* (autoware_behavior_velocity_stop_line_module/src/scene.cpp).            *)
(*                                                                         *)
(* One StopLineModule instance is modelled: its fields state_,             *)
(* stopped_time_, velocity_factor_ and debug_data_, the clock it reads,    *)
(* and the two buffers the caller hands to modifyPathVelocity (the path    *)
(* and the stop-reason collection).  One action, ModifyPathVelocity, is    *)
(* one planning cycle.                                                     *)
(*                                                                         *)
(* Geometry is one-dimensional: a path runs along the x axis (y = 0), the  *)
(* arc-length of a point is its x offset from the first point, and the     *)
(* stop line is a segment perpendicular to the x axis.  Lengths and times  *)
(* are integers (one unit of length, one unit of time); the code only      *)
(* subtracts and compares them.                                            *)
(***************************************************************************)
EXTENDS Integers, Sequences, FiniteSets, TLC

\* ---------------------------------------------------------------- bounds
MaxLen == 2
MaxX == 3
MaxTime == 4

\* ------------------------------------------------------- std::optional<T>
None == << >>
Some(v) == << v >>
HasValue(o) == o # << >>
Value(o) == o[1]

\* ------------------------------------------------- construction-time data
\* PlannerParam injected at construction (stop_margin,
\* hold_stop_margin_distance, stop_duration_sec).
planner_param_ ==
  [stop_margin |-> 1, hold_stop_margin_distance |-> 1, stop_duration_sec |-> 1]

\* The part of planner_data_ that does not change between cycles:
\* vehicle_info_.max_longitudinal_offset_m and stop_line_extend_length.
planner_data_ ==
  [max_longitudinal_offset_m |-> 1, stop_line_extend_length |-> 1]

\* stop_line_: two end points; here a segment at x = 3 lying beside the
\* path (y from 1 to 3), which reaches the path only once extended.
stop_line_ == << [x |-> 3, y |-> 1], [x |-> 3, y |-> 3] >>

\* ----------------------------------------------------------- input domains
\* A path point: position x on the path axis, longitudinal velocity v and
\* lane id.  The velocity of an input point is x + 1, so no input velocity
\* is 0 and no two points of a path share one.
Points == {[x |-> x, v |-> x + 1, lane |-> 7] : x \in 0..MaxX}
Seqs(n) == UNION {[1..k -> Points] : k \in 0..n}
Ordered(p) == \A i \in 1..(Len(p) - 1) : p[i].x < p[i + 1].x
\* Paths the trajectory builder accepts ...
WellFormed == {p \in Seqs(MaxLen) : Len(p) >= 2 /\ Ordered(p)}
\* ... and paths it rejects: no point, one point, the same point twice.
Malformed == Seqs(1) \cup {<< pt, pt >> : pt \in Points}
Paths == WellFormed \cup Malformed
Steps == {1, 2}
EgoPoses == [x : 0..MaxX, y : {0}]
\* An entry another module has already appended to the caller's collection.
ForeignFactor == [stop_pose |-> [x |-> 0, y |-> 0], stop_factor_points |-> << >>]
StopReasons == {<< ForeignFactor >>}

\* ------------------------------------------------ trajectory abstraction
\* trajectory::Trajectory<PathPointWithLaneId>: the points and the
\* arc-length of each (its base).
Bases(points) == [i \in 1..Len(points) |-> points[i].x - points[1].x]

\* Builder{}.build(points): fails with fewer than 2 points or when the
\* arc-length is not strictly increasing.
Build(points) ==
  IF Len(points) < 2 \/ \E i \in 1..(Len(points) - 1) : points[i + 1].x <= points[i].x
  THEN None
  ELSE Some([points |-> points, bases |-> Bases(points)])

\* trajectory.length()
Length(trajectory) == trajectory.bases[Len(trajectory.bases)]

SqDist(pt, position) ==
  (pt.x - position.x) * (pt.x - position.x) + position.y * position.y

\* trajectory.closest(position): arc-length of the nearest trajectory
\* point, the earliest one on a tie.
Closest(trajectory, position) ==
  LET n == Len(trajectory.points)
      best == CHOOSE i \in 1..n :
                /\ \A j \in 1..n :
                     SqDist(trajectory.points[i], position)
                       <= SqDist(trajectory.points[j], position)
                /\ \A j \in 1..(i - 1) :
                     SqDist(trajectory.points[j], position)
                       > SqDist(trajectory.points[i], position)
  IN  trajectory.bases[best]

Min(a, b) == IF a <= b THEN a ELSE b
Max(a, b) == IF a >= b THEN a ELSE b

\* trajectory.crossed(start, end): arc-length of the first intersection
\* of the polyline (on y = 0) with the segment, for a segment
\* perpendicular to the x axis; absent when they do not meet.
Crossed(trajectory, seg_start, seg_end) ==
  LET x1 == trajectory.points[1].x
      xn == trajectory.points[Len(trajectory.points)].x
  IN  IF /\ seg_start.x = seg_end.x
         /\ Min(seg_start.y, seg_end.y) <= 0
         /\ 0 <= Max(seg_start.y, seg_end.y)
         /\ x1 <= seg_start.x
         /\ seg_start.x <= xn
      THEN Some(seg_start.x - x1)
      ELSE None

\* trajectory.longitudinal_velocity_mps.range(from_s, to_s).set(value)
RangeSet(trajectory, from_s, to_s, value) ==
  [trajectory EXCEPT !.points =
     [i \in 1..Len(trajectory.points) |->
        IF from_s <= trajectory.bases[i] /\ trajectory.bases[i] <= to_s
        THEN [trajectory.points[i] EXCEPT !.v = value]
        ELSE trajectory.points[i]]]

\* trajectory.compute(s).point.pose, s clamped to [0, length]
Compute(trajectory, s) ==
  [x |-> trajectory.points[1].x + Max(0, Min(s, Length(trajectory))), y |-> 0]

\* trajectory.restore()
Restore(trajectory) == trajectory.points

Sgn(a) == IF a > 0 THEN 1 ELSE IF a < 0 THEN -1 ELSE 0

\* planning_utils::extendLine(p1, p2, length): both ends pushed outwards
\* along the direction of the (axis-parallel) line.
extendLine(p1, p2, length) ==
  LET dx == Sgn(p2.x - p1.x)
      dy == Sgn(p2.y - p1.y)
  IN  << [x |-> p1.x - length * dx, y |-> p1.y - length * dy],
         [x |-> p2.x + length * dx, y |-> p2.y + length * dy] >>

\* planning_utils::appendStopReason(stop_factor, stop_reason)
appendStopReason(stop_factor, stop_reason) == Append(stop_reason, stop_factor)

\* ------------------------------------------------------------- scene.cpp
\* getCenterOfStopLine: (a + b) / 2.0 per coordinate; the end points of
\* stop_line_ have even coordinate sums, so the division is exact.
getCenterOfStopLine(stop_line) ==
  [x |-> (stop_line[1].x + stop_line[2].x) \div 2,
   y |-> (stop_line[1].y + stop_line[2].y) \div 2]

\* Variant of getEgoAndStopPoint: START resolves a stop point as STOPPED does.
getEgoAndStopPoint_startStops(trajectory, ego_pose, state) ==
  LET ego_s == Closest(trajectory, ego_pose)
      crossing == Crossed(trajectory,
                          extendLine(stop_line_[1], stop_line_[2],
                                     planner_data_.stop_line_extend_length)[1],
                          extendLine(stop_line_[1], stop_line_[2],
                                     planner_data_.stop_line_extend_length)[2])
      shifted == Value(crossing)
                   - (planner_data_.max_longitudinal_offset_m + planner_param_.stop_margin)
  IN  [ego_s |-> ego_s,
       stop_point |->
         IF state = "APPROACH"
         THEN IF HasValue(crossing) /\ shifted >= 0 THEN Some(shifted) ELSE None
         ELSE Some(ego_s)]

\* Variant of getEgoAndStopPoint: a stop point behind the start of the
\* trajectory (below 0) is kept.
getEgoAndStopPoint_keepsNegative(trajectory, ego_pose, state) ==
  LET ego_s == Closest(trajectory, ego_pose)
      crossing == Crossed(trajectory,
                          extendLine(stop_line_[1], stop_line_[2],
                                     planner_data_.stop_line_extend_length)[1],
                          extendLine(stop_line_[1], stop_line_[2],
                                     planner_data_.stop_line_extend_length)[2])
      shifted == Value(crossing)
                   - (planner_data_.max_longitudinal_offset_m + planner_param_.stop_margin)
  IN  [ego_s |-> ego_s,
       stop_point |->
         CASE state = "APPROACH" -> IF HasValue(crossing) THEN Some(shifted) ELSE None
           [] state = "STOPPED" -> Some(ego_s)
           [] state = "START" -> None]

\* Variant of getEgoAndStopPoint: a stop point at arc-length 0 is dropped
\* like a negative one.
getEgoAndStopPoint_dropsZero(trajectory, ego_pose, state) ==
  LET ego_s == Closest(trajectory, ego_pose)
      crossing == Crossed(trajectory,
                          extendLine(stop_line_[1], stop_line_[2],
                                     planner_data_.stop_line_extend_length)[1],
                          extendLine(stop_line_[1], stop_line_[2],
                                     planner_data_.stop_line_extend_length)[2])
      shifted == Value(crossing)
                   - (planner_data_.max_longitudinal_offset_m + planner_param_.stop_margin)
  IN  [ego_s |-> ego_s,
       stop_point |->
         CASE state = "APPROACH" ->
                IF HasValue(crossing) /\ shifted > 0 THEN Some(shifted) ELSE None
           [] state = "STOPPED" -> Some(ego_s)
           [] state = "START" -> None]

\* Variant of getEgoAndStopPoint: STOPPED resolves the stop point from the
\* stop line as APPROACH does.
getEgoAndStopPoint_stoppedAtLine(trajectory, ego_pose, state) ==
  LET ego_s == Closest(trajectory, ego_pose)
      crossing == Crossed(trajectory,
                          extendLine(stop_line_[1], stop_line_[2],
                                     planner_data_.stop_line_extend_length)[1],
                          extendLine(stop_line_[1], stop_line_[2],
                                     planner_data_.stop_line_extend_length)[2])
      shifted == Value(crossing)
                   - (planner_data_.max_longitudinal_offset_m + planner_param_.stop_margin)
  IN  [ego_s |-> ego_s,
       stop_point |->
         IF state = "START" THEN None
         ELSE IF HasValue(crossing) /\ shifted >= 0 THEN Some(shifted) ELSE None]

\* StopLineModule::getEgoAndStopPoint
getEgoAndStopPoint(trajectory, ego_pose, state) ==
  LET ego_s == Closest(trajectory, ego_pose)
      base_link2front == planner_data_.max_longitudinal_offset_m
      stop_line == extendLine(stop_line_[1], stop_line_[2],
                              planner_data_.stop_line_extend_length)
      trajectory_stop_line_intersection ==
        Crossed(trajectory, stop_line[1], stop_line[2])
      shifted == Value(trajectory_stop_line_intersection)
                   - (base_link2front + planner_param_.stop_margin)
      stop_point_s ==
        CASE state = "APPROACH" ->
               IF ~HasValue(trajectory_stop_line_intersection) THEN None
               ELSE IF shifted < 0 THEN None
               ELSE Some(shifted)
          [] state = "STOPPED" -> Some(ego_s)
          [] state = "START" -> None
  IN  [ego_s |-> ego_s, stop_point |-> stop_point_s]

\* Variants of updateStateAndStoppedTime with one slip each, used to show
\* that the properties below depend on it.
\* The hold is skipped: APPROACH releases at once.
updateStateAndStoppedTime_skipHold(state, stopped_time, now_, distance_to_stop_point, is_vehicle_stopped) ==
  CASE state = "APPROACH" ->
         IF distance_to_stop_point < planner_param_.hold_stop_margin_distance
              /\ is_vehicle_stopped
         THEN [state |-> "START", stopped_time |-> None, log |-> << >>]
         ELSE [state |-> state, stopped_time |-> stopped_time, log |-> << >>]
    [] OTHER -> [state |-> state, stopped_time |-> stopped_time, log |-> << >>]

\* The timestamp is not reset on STOPPED -> START.
updateStateAndStoppedTime_keepTime(state, stopped_time, now_, distance_to_stop_point, is_vehicle_stopped) ==
  CASE state = "APPROACH" ->
         IF distance_to_stop_point < planner_param_.hold_stop_margin_distance
              /\ is_vehicle_stopped
         THEN [state |-> "STOPPED", stopped_time |-> Some(now_), log |-> << >>]
         ELSE [state |-> state, stopped_time |-> stopped_time, log |-> << >>]
    [] state = "STOPPED" ->
         IF now_ - Value(stopped_time) > planner_param_.stop_duration_sec
         THEN [state |-> "START", stopped_time |-> stopped_time, log |-> << >>]
         ELSE [state |-> state, stopped_time |-> stopped_time, log |-> << >>]
    [] state = "START" ->
         [state |-> state, stopped_time |-> stopped_time, log |-> << >>]

\* The release compares with >= instead of >.
updateStateAndStoppedTime_releaseAtD(state, stopped_time, now_, distance_to_stop_point, is_vehicle_stopped) ==
  CASE state = "APPROACH" ->
         IF distance_to_stop_point < planner_param_.hold_stop_margin_distance
              /\ is_vehicle_stopped
         THEN [state |-> "STOPPED", stopped_time |-> Some(now_), log |-> << >>]
         ELSE [state |-> state, stopped_time |-> stopped_time, log |-> << >>]
    [] state = "STOPPED" ->
         IF now_ - Value(stopped_time) >= planner_param_.stop_duration_sec
         THEN [state |-> "START", stopped_time |-> None, log |-> << >>]
         ELSE [state |-> state, stopped_time |-> stopped_time, log |-> << >>]
    [] state = "START" ->
         [state |-> state, stopped_time |-> stopped_time, log |-> << >>]

\* A late stop (distance below 0) does not arm the hold.
updateStateAndStoppedTime_noLateStop(state, stopped_time, now_, distance_to_stop_point, is_vehicle_stopped) ==
  CASE state = "APPROACH" ->
         IF /\ distance_to_stop_point < planner_param_.hold_stop_margin_distance
            /\ distance_to_stop_point >= 0
            /\ is_vehicle_stopped
         THEN [state |-> "STOPPED", stopped_time |-> Some(now_),
               log |-> << "APPROACH -> STOPPED" >>]
         ELSE [state |-> state, stopped_time |-> stopped_time, log |-> << >>]
    [] state = "STOPPED" ->
         IF now_ - Value(stopped_time) > planner_param_.stop_duration_sec
         THEN [state |-> "START", stopped_time |-> None,
               log |-> << "STOPPED -> START" >>]
         ELSE [state |-> state, stopped_time |-> stopped_time, log |-> << >>]
    [] state = "START" ->
         [state |-> state, stopped_time |-> stopped_time, log |-> << >>]

\* Variant of updateStateAndStoppedTime: APPROACH -> STOPPED does not ask
\* whether the vehicle is stopped.
updateStateAndStoppedTime_armsWhileMoving(state, stopped_time, now_, distance_to_stop_point, is_vehicle_stopped) ==
  CASE state = "APPROACH" ->
         IF distance_to_stop_point < planner_param_.hold_stop_margin_distance
         THEN [state |-> "STOPPED", stopped_time |-> Some(now_),
               log |-> << "APPROACH -> STOPPED" >>]
         ELSE [state |-> state, stopped_time |-> stopped_time, log |-> << >>]
    [] state = "STOPPED" ->
         IF now_ - Value(stopped_time) > planner_param_.stop_duration_sec
         THEN [state |-> "START", stopped_time |-> None,
               log |-> << "STOPPED -> START" >>]
         ELSE [state |-> state, stopped_time |-> stopped_time, log |-> << >>]
    [] state = "START" ->
         [state |-> state, stopped_time |-> stopped_time, log |-> << >>]

\* Variant of updateStateAndStoppedTime: a STOPPED cycle that does not
\* release takes a new timestamp while the vehicle is stopped.
updateStateAndStoppedTime_restamps(state, stopped_time, now_, distance_to_stop_point, is_vehicle_stopped) ==
  CASE state = "APPROACH" ->
         IF distance_to_stop_point < planner_param_.hold_stop_margin_distance
              /\ is_vehicle_stopped
         THEN [state |-> "STOPPED", stopped_time |-> Some(now_),
               log |-> << "APPROACH -> STOPPED" >>]
         ELSE [state |-> state, stopped_time |-> stopped_time, log |-> << >>]
    [] state = "STOPPED" ->
         IF now_ - Value(stopped_time) > planner_param_.stop_duration_sec
         THEN [state |-> "START", stopped_time |-> None,
               log |-> << "STOPPED -> START" >>]
         ELSE [state |-> state,
               stopped_time |-> IF is_vehicle_stopped THEN Some(now_) ELSE stopped_time,
               log |-> << >>]
    [] state = "START" ->
         [state |-> state, stopped_time |-> stopped_time, log |-> << >>]

\* Variant of updateStateAndStoppedTime: the stop duration is taken as
\* stopped_time - now, which never exceeds stop_duration_sec.
updateStateAndStoppedTime_swappedDiff(state, stopped_time, now_, distance_to_stop_point, is_vehicle_stopped) ==
  CASE state = "APPROACH" ->
         IF distance_to_stop_point < planner_param_.hold_stop_margin_distance
              /\ is_vehicle_stopped
         THEN [state |-> "STOPPED", stopped_time |-> Some(now_),
               log |-> << "APPROACH -> STOPPED" >>]
         ELSE [state |-> state, stopped_time |-> stopped_time, log |-> << >>]
    [] state = "STOPPED" ->
         IF Value(stopped_time) - now_ > planner_param_.stop_duration_sec
         THEN [state |-> "START", stopped_time |-> None,
               log |-> << "STOPPED -> START" >>]
         ELSE [state |-> state, stopped_time |-> stopped_time, log |-> << >>]
    [] state = "START" ->
         [state |-> state, stopped_time |-> stopped_time, log |-> << >>]

\* StopLineModule::updateStateAndStoppedTime; log lists the messages of
\* RCLCPP_INFO / RCLCPP_WARN in the order they are written.
updateStateAndStoppedTime(state, stopped_time, now_, distance_to_stop_point, is_vehicle_stopped) ==
  CASE state = "APPROACH" ->
         IF distance_to_stop_point < planner_param_.hold_stop_margin_distance
              /\ is_vehicle_stopped
         THEN [state |-> "STOPPED", stopped_time |-> Some(now_),
               log |-> IF distance_to_stop_point < 0
                       THEN << "APPROACH -> STOPPED",
                               "Vehicle cannot stop before stop line" >>
                       ELSE << "APPROACH -> STOPPED" >>]
         ELSE [state |-> state, stopped_time |-> stopped_time, log |-> << >>]
    [] state = "STOPPED" ->
         LET stop_duration == now_ - Value(stopped_time)
         IN  IF stop_duration > planner_param_.stop_duration_sec
             THEN [state |-> "START", stopped_time |-> None,
                   log |-> << "STOPPED -> START" >>]
             ELSE [state |-> state, stopped_time |-> stopped_time, log |-> << >>]
    [] state = "START" ->
         [state |-> state, stopped_time |-> stopped_time, log |-> << >>]

\* Variant of updateVelocityFactor: STOPPED reports the status of APPROACH.
updateVelocityFactor_sameStatus(velocity_factor, state, distance_to_stop_point) ==
  CASE state = "APPROACH" ->
         Some([distance |-> distance_to_stop_point, status |-> "APPROACHING"])
    [] state = "STOPPED" ->
         Some([distance |-> distance_to_stop_point, status |-> "APPROACHING"])
    [] state = "START" -> velocity_factor

\* StopLineModule::updateVelocityFactor
updateVelocityFactor(velocity_factor, state, distance_to_stop_point) ==
  CASE state = "APPROACH" ->
         Some([distance |-> distance_to_stop_point, status |-> "APPROACHING"])
    [] state = "STOPPED" ->
         Some([distance |-> distance_to_stop_point, status |-> "STOPPED"])
    [] state = "START" -> velocity_factor

\* Variant of updateStopReason: the collection is overwritten with the one
\* new entry.
updateStopReason_replaces(stop_reason_, stop_pose) ==
  << [stop_pose |-> stop_pose,
      stop_factor_points |-> << getCenterOfStopLine(stop_line_) >>] >>

\* StopLineModule::updateStopReason
updateStopReason(stop_reason_, stop_pose) ==
  LET stop_factor == [stop_pose |-> stop_pose,
                      stop_factor_points |-> << getCenterOfStopLine(stop_line_) >>]
  IN  appendStopReason(stop_factor, stop_reason_)

\* Variant of updateDebugData: the stop pose is not cleared in START.
updateDebugData_keepsPose(debug_data, stop_pose, state) ==
  [base_link2front |-> planner_data_.max_longitudinal_offset_m,
   stop_pose |-> Some(stop_pose)]

\* Variant of updateDebugData: in START the record is left as it was.
updateDebugData_staleOnStart(debug_data, stop_pose, state) ==
  IF state = "START"
  THEN debug_data
  ELSE [base_link2front |-> planner_data_.max_longitudinal_offset_m,
        stop_pose |-> Some(stop_pose)]

\* StopLineModule::updateDebugData
updateDebugData(debug_data, stop_pose, state) ==
  [base_link2front |-> planner_data_.max_longitudinal_offset_m,
   stop_pose |-> IF state = "START" THEN None ELSE Some(stop_pose)]

\* StopLineModule::modifyPathVelocity(path, stop_reason), in the four
\* definitions NoEffect, Emit, Apply and Built.  self holds the fields of
\* the module, ctx what the call reads from planner_data_ and clock_
\* (current_odometry->pose, isVehicleStopped(), now()).  The result holds
\* the fields and the two buffers after the call, and the locals of the
\* call (trajectory built or not, ego_s, stop_point, stop_pose, log).

\* An early "return true": nothing is written.
NoEffect(self, path_in, reason_in, built, ego_s) ==
  [state_ |-> self.state_, stopped_time_ |-> self.stopped_time_,
   velocity_factor_ |-> self.velocity_factor_, debug_data_ |-> self.debug_data_,
   path |-> path_in, stop_reason |-> reason_in,
   built |-> built, ego_s |-> ego_s, stop_point |-> None, stop_pose |-> None,
   log |-> << >>]

\* Variant of Emit: the velocity factor is set after the state machine has
\* stepped, from the state it stepped to.
Emit_factorAfterStep(self, reason_in, zeroed, ego_s, stop_point, upd, stop_pose) ==
  [state_ |-> upd.state, stopped_time_ |-> upd.stopped_time,
   velocity_factor_ |-> updateVelocityFactor(self.velocity_factor_, upd.state,
                                             stop_point - ego_s),
   debug_data_ |-> updateDebugData(self.debug_data_, stop_pose, upd.state),
   path |-> Restore(zeroed),
   stop_reason |-> updateStopReason(reason_in, stop_pose),
   built |-> TRUE, ego_s |-> Some(ego_s),
   stop_point |-> Some(stop_point), stop_pose |-> Some(stop_pose),
   log |-> upd.log]

\* Lines 66-81, once the stop point is known: the zeroed trajectory is
\* restored into the path, the velocity factor is set from the state the
\* call began with, the state machine steps (upd), and the stop reason and
\* the debug data are written, the debug data from the state after the step.
Emit(self, reason_in, zeroed, ego_s, stop_point, upd, stop_pose) ==
  [state_ |-> upd.state, stopped_time_ |-> upd.stopped_time,
   velocity_factor_ |-> updateVelocityFactor(self.velocity_factor_, self.state_,
                                             stop_point - ego_s),
   debug_data_ |-> updateDebugData(self.debug_data_, stop_pose, upd.state),
   path |-> Restore(zeroed),
   stop_reason |-> updateStopReason(reason_in, stop_pose),
   built |-> TRUE, ego_s |-> Some(ego_s),
   stop_point |-> Some(stop_point), stop_pose |-> Some(stop_pose),
   log |-> upd.log]

\* Variant of Apply: the velocity over [stop point, length] is halved
\* instead of being set to 0.
Apply_halves(self, path_in, reason_in, ctx, trajectory, es) ==
  IF ~HasValue(es.stop_point)
  THEN NoEffect(self, path_in, reason_in, TRUE, Some(es.ego_s))
  ELSE Emit(self, reason_in,
            [trajectory EXCEPT !.points =
               [i \in 1..Len(trajectory.points) |->
                  IF Value(es.stop_point) <= trajectory.bases[i]
                  THEN [trajectory.points[i] EXCEPT !.v = @ \div 2]
                  ELSE trajectory.points[i]]],
            es.ego_s, Value(es.stop_point),
            updateStateAndStoppedTime(self.state_, self.stopped_time_, ctx.now,
                                      Value(es.stop_point) - es.ego_s,
                                      ctx.is_vehicle_stopped),
            Compute(trajectory, Value(es.stop_point)))

\* Variant of Apply: the velocity is zeroed from ego_s, not from the stop point.
Apply_zeroFromEgo(self, path_in, reason_in, ctx, trajectory, es) ==
  IF ~HasValue(es.stop_point)
  THEN NoEffect(self, path_in, reason_in, TRUE, Some(es.ego_s))
  ELSE Emit(self, reason_in,
            RangeSet(trajectory, es.ego_s, Length(trajectory), 0),
            es.ego_s, Value(es.stop_point),
            updateStateAndStoppedTime(self.state_, self.stopped_time_, ctx.now,
                                      Value(es.stop_point) - es.ego_s,
                                      ctx.is_vehicle_stopped),
            Compute(trajectory, Value(es.stop_point)))

\* Lines 62-75: no stop point, no effect; else the velocity is zeroed from
\* the stop point to the end of the trajectory, the state machine is
\* stepped with the distance from ego to the stop point, and the stop pose
\* is the pose at the stop point.
Apply(self, path_in, reason_in, ctx, trajectory, es) ==
  IF ~HasValue(es.stop_point)
  THEN NoEffect(self, path_in, reason_in, TRUE, Some(es.ego_s))
  ELSE Emit(self, reason_in,
            RangeSet(trajectory, Value(es.stop_point), Length(trajectory), 0),
            es.ego_s, Value(es.stop_point),
            updateStateAndStoppedTime(self.state_, self.stopped_time_, ctx.now,
                                      Value(es.stop_point) - es.ego_s,
                                      ctx.is_vehicle_stopped),
            Compute(trajectory, Value(es.stop_point)))

\* Variant of Built: without a trajectory the path is handed back empty.
Built_clearsPath(self, path_in, reason_in, ctx, trajectory) ==
  IF ~HasValue(trajectory)
  THEN NoEffect(self, << >>, reason_in, FALSE, None)
  ELSE Apply(self, path_in, reason_in, ctx, Value(trajectory),
             getEgoAndStopPoint(Value(trajectory), ctx.pose, self.state_))

\* Lines 55-60: no trajectory, no effect; else ego and stop point are
\* resolved from the state the call begins with.
Built(self, path_in, reason_in, ctx, trajectory) ==
  IF ~HasValue(trajectory)
  THEN NoEffect(self, path_in, reason_in, FALSE, None)
  ELSE Apply(self, path_in, reason_in, ctx, Value(trajectory),
             getEgoAndStopPoint(Value(trajectory), ctx.pose, self.state_))

modifyPathVelocity(self, path_in, reason_in, ctx) ==
  Built(self, path_in, reason_in, ctx, Build(path_in))

\* ------------------------------------------------------------------ state
VARIABLES
  state_,            \* State::APPROACH / STOPPED / START
  stopped_time_,     \* std::optional<rclcpp::Time>
  velocity_factor_,  \* the factor last set, absent until the first set()
  debug_data_,       \* DebugData {base_link2front, stop_pose}
  now,               \* the clock the module reads
  path,              \* *path after the last call
  stop_reason,       \* *stop_reason after the last call
  call,              \* the last call: its arguments, the fields before it, its locals
  armed_at           \* history: the clock time of the first call that resolved a
                     \* stop point nearer than hold_stop_margin_distance with the
                     \* vehicle stopped; absent before that call

vars == << state_, stopped_time_, velocity_factor_, debug_data_, now, path,
           stop_reason, call, armed_at >>

Self == [state_ |-> state_, stopped_time_ |-> stopped_time_,
         velocity_factor_ |-> velocity_factor_, debug_data_ |-> debug_data_]

\* StopLineModule::StopLineModule: state_(State::APPROACH), debug_data_(),
\* stopped_time_ default-constructed (absent), velocity_factor_.init(...).
Init ==
  /\ state_ = "APPROACH"
  /\ stopped_time_ = None
  /\ velocity_factor_ = None
  /\ debug_data_ = [base_link2front |-> 0, stop_pose |-> None]
  /\ now = 0
  /\ path = << >>
  /\ stop_reason = << >>
  /\ call = [n |-> 0]
  /\ armed_at = None

\* What the history variable records of a call with result r at clock time t.
Armed(r, is_vehicle_stopped, t) ==
  IF /\ armed_at = None
     /\ HasValue(r.stop_point)
     /\ is_vehicle_stopped
     /\ Value(r.stop_point) - Value(r.ego_s) < planner_param_.hold_stop_margin_distance
  THEN Some(t)
  ELSE armed_at

\* One call of modifyPathVelocity with the clock at t: the caller hands
\* over a fresh path and its stop-reason collection, and the module runs
\* to its return.
CycleOn(t, paths, poses) ==
  \E path_in \in paths, reason_in \in StopReasons, pose \in poses,
     is_vehicle_stopped \in BOOLEAN :
    \E r \in {modifyPathVelocity(
                Self, path_in, reason_in,
                [pose |-> pose, is_vehicle_stopped |-> is_vehicle_stopped,
                 now |-> t])} :
      /\ now' = t
      /\ state_' = r.state_
      /\ stopped_time_' = r.stopped_time_
      /\ velocity_factor_' = r.velocity_factor_
      /\ debug_data_' = r.debug_data_
      /\ path' = r.path
      /\ stop_reason' = r.stop_reason
      /\ call' = [n |-> 1, path_in |-> path_in, reason_in |-> reason_in,
                  pose |-> pose, is_vehicle_stopped |-> is_vehicle_stopped,
                  before |-> Self, built |-> r.built, ego_s |-> r.ego_s,
                  stop_point |-> r.stop_point, stop_pose |-> r.stop_pose,
                  log |-> r.log]
      /\ armed_at' = Armed(r, is_vehicle_stopped, t)

\* A call with any of the modelled paths and ego poses.
Cycle(t) == CycleOn(t, Paths, EgoPoses)

\* One planning cycle: the clock has advanced, up to MaxTime.
ModifyPathVelocity ==
  \E dt \in Steps :
    /\ now + dt <= MaxTime
    /\ Cycle(now + dt)

Next == ModifyPathVelocity

Spec == Init /\ [][Next]_vars

\* The periodic invocation with a clock that grows without bound: the clock
\* value MaxTime stands for every time from MaxTime on, which decides
\* now - stopped_time > stop_duration_sec as the unbounded clock does for
\* every timestamp with stopped_time + stop_duration_sec < MaxTime.
\* The inputs are the paths and ego poses at the ends of the modelled road:
\* no path, a degenerate path, a path across the stop line.
LivePaths ==
  {p \in Paths : Len(p) \in {0, 2} /\ \A i \in 1..Len(p) : p[i].x \in {0, MaxX}}

LivePoses == {pose \in EgoPoses : pose.x \in {0, MaxX}}

LiveCycle == \E dt \in Steps : CycleOn(Min(now + dt, MaxTime), LivePaths, LivePoses)

\* A cycle whose trajectory construction succeeds (line 55 not taken).
BuiltCycle == LiveCycle /\ call'.built

\* Cycles keep being invoked and construction succeeds again and again.
LiveSpec == Init /\ [][LiveCycle]_vars /\ WF_vars(BuiltCycle)

\* ------------------------------------------------------------ properties
\* Shorthands for the last call.
Called == call.n = 1
Before == call.before
Distance == Value(call.stop_point) - Value(call.ego_s)
HoldMargin == planner_param_.hold_stop_margin_distance
Duration == planner_param_.stop_duration_sec

\* C1: a cycle takes APPROACH to APPROACH or STOPPED, STOPPED to STOPPED or
\* START, and START to START; never backwards, never APPROACH to START.
C1_Transitions ==
  Called =>
    /\ Before.state_ = "APPROACH" => state_ \in {"APPROACH", "STOPPED"}
    /\ Before.state_ = "STOPPED" => state_ \in {"STOPPED", "START"}
    /\ Before.state_ = "START" => state_ = "START"

\* A cycle that released the hold.
C1_Witness == Called /\ Before.state_ = "STOPPED" /\ state_ = "START"

\* C2: between cycles the stopped timestamp is present exactly when the
\* state is STOPPED.
C2_TimestampIffStopped == HasValue(stopped_time_) <=> state_ = "STOPPED"

\* A cycle that entered STOPPED and recorded the timestamp.
C2_Witness ==
  Called /\ Before.state_ = "APPROACH" /\ state_ = "STOPPED" /\ HasValue(stopped_time_)

\* C3 as stated: with STOPPED entered at T0, a cycle at a clock time in
\* [T0, T0 + D] leaves the state STOPPED and a cycle at or after T0 + D
\* makes it START.
C3_Original ==
  (Called /\ Before.state_ = "STOPPED") =>
    /\ now <= Value(Before.stopped_time_) + Duration => state_ = "STOPPED"
    /\ now >= Value(Before.stopped_time_) + Duration => state_ = "START"

\* C3 amended: the timestamp of STOPPED is the clock time T0 of the cycle
\* that entered it and stays so while the state is STOPPED; a cycle at a
\* clock time up to and including T0 + D leaves the state STOPPED, and a
\* cycle that builds its trajectory at a clock time strictly after T0 + D
\* makes it START.
C3_Hold ==
  Called =>
    /\ (Before.state_ = "APPROACH" /\ state_ = "STOPPED") => stopped_time_ = Some(now)
    /\ (Before.state_ = "STOPPED" /\ state_ = "STOPPED") =>
         stopped_time_ = Before.stopped_time_
    /\ Before.state_ = "STOPPED" =>
         /\ now <= Value(Before.stopped_time_) + Duration => state_ = "STOPPED"
         /\ (call.built /\ now > Value(Before.stopped_time_) + Duration) =>
              state_ = "START"

\* A cycle at exactly T0 + D, with a trajectory, that kept the hold.
C3_Witness ==
  /\ Called /\ Before.state_ = "STOPPED" /\ call.built
  /\ now = Value(Before.stopped_time_) + Duration
  /\ state_ = "STOPPED"

\* C4: a cycle that begins in START resolves no stop point, returns the
\* path and the stop reasons as given, sets no velocity factor and leaves the
\* state START without timestamp.
C4_StartIsInert ==
  (Called /\ Before.state_ = "START") =>
    /\ call.stop_point = None
    /\ path = call.path_in
    /\ stop_reason = call.reason_in
    /\ velocity_factor_ = Before.velocity_factor_
    /\ state_ = "START"
    /\ stopped_time_ = None

\* A cycle in START with a trajectory that crosses the stop line ahead of
\* a stopped ego.
C4_Witness ==
  /\ Called /\ Before.state_ = "START" /\ call.built /\ call.is_vehicle_stopped
  /\ call.path_in[1].x = 0 /\ call.path_in[Len(call.path_in)].x = 3

\* C5: in a cycle that begins in APPROACH with a stop point, STOPPED is
\* entered exactly when stop_s - ego_s < hold_stop_margin_distance and the
\* vehicle is stopped; the timestamp is then the clock time of the cycle;
\* a negative distance changes nothing but the warning.
C5_ApproachToStopped ==
  (Called /\ Before.state_ = "APPROACH" /\ HasValue(call.stop_point)) =>
    /\ state_ = "STOPPED" <=> (Distance < HoldMargin /\ call.is_vehicle_stopped)
    /\ state_ = "STOPPED" => stopped_time_ = Some(now)
    /\ state_ # "STOPPED" => (state_ = "APPROACH" /\ stopped_time_ = None)
    /\ "Vehicle cannot stop before stop line" \in {call.log[i] : i \in 1..Len(call.log)}
         <=> (state_ = "STOPPED" /\ Distance < 0)

\* A late stop: STOPPED entered past the stop point.
C5_Witness ==
  /\ Called /\ Before.state_ = "APPROACH" /\ HasValue(call.stop_point)
  /\ Distance < 0 /\ state_ = "STOPPED"

\* More shorthands for the last call: the arc-length of input point i, the
\* crossing of the input path with the extended stop line, that crossing
\* moved back by front overhang and stop margin, and "the output path is
\* the input path with velocity 0 from arc-length s on".
Arc(i) == call.path_in[i].x - call.path_in[1].x
ExtendedStopLine ==
  extendLine(stop_line_[1], stop_line_[2], planner_data_.stop_line_extend_length)
CrossingOfInput ==
  Crossed(Value(Build(call.path_in)), ExtendedStopLine[1], ExtendedStopLine[2])
ShiftedCrossing ==
  Value(CrossingOfInput)
    - (planner_data_.max_longitudinal_offset_m + planner_param_.stop_margin)
ZeroedFrom(s) ==
  /\ Len(path) = Len(call.path_in)
  /\ \A i \in 1..Len(path) :
       /\ path[i].x = call.path_in[i].x
       /\ path[i].lane = call.path_in[i].lane
       /\ Arc(i) >= s => path[i].v = 0
       /\ Arc(i) < s => path[i].v = call.path_in[i].v
FactorOf(state) ==
  Some([distance |-> Distance,
        status |-> IF state = "APPROACH" THEN "APPROACHING" ELSE "STOPPED"])
StopFactorAt(s) ==
  [stop_pose |-> [x |-> call.path_in[1].x + s, y |-> 0],
   stop_factor_points |-> << getCenterOfStopLine(stop_line_) >>]

\* C6 as stated: in a cycle with a stop point, the stop point, the velocity
\* written, the velocity factor, the stop reason and the debug record are
\* all those of the state the cycle began with.
C6_Original ==
  (Called /\ HasValue(call.stop_point)) =>
    /\ velocity_factor_ = FactorOf(Before.state_)
    /\ stop_reason = Append(call.reason_in, StopFactorAt(Value(call.stop_point)))
    /\ ZeroedFrom(Value(call.stop_point))
    /\ debug_data_.stop_pose =
         IF Before.state_ = "START" THEN None ELSE call.stop_pose

\* C6 amended: in a cycle with a stop point, the stop point, the velocity
\* written, the velocity factor and the stop reason are those of the state
\* the cycle began with, and the state machine steps on the distance
\* resolved from that state; the debug record alone is written from the
\* state after the step, so its stop pose is absent already in the cycle
\* that enters START.
C6_PreTransitionState ==
  (Called /\ HasValue(call.stop_point)) =>
    /\ Before.state_ \in {"APPROACH", "STOPPED"}
    /\ Before.state_ = "APPROACH" => call.stop_point = Some(ShiftedCrossing)
    /\ Before.state_ = "STOPPED" => call.stop_point = call.ego_s
    /\ velocity_factor_ = FactorOf(Before.state_)
    /\ stop_reason = Append(call.reason_in, StopFactorAt(Value(call.stop_point)))
    /\ ZeroedFrom(Value(call.stop_point))
    /\ Before.state_ = "APPROACH" =>
         (state_ = "STOPPED" <=> (Distance < HoldMargin /\ call.is_vehicle_stopped))
    /\ Before.state_ = "STOPPED" =>
         (state_ = "START" <=> now - Value(Before.stopped_time_) > Duration)
    /\ debug_data_.stop_pose = IF state_ = "START" THEN None ELSE call.stop_pose

\* A cycle that enters STOPPED and still reports as APPROACH does, with the
\* stop point of APPROACH away from ego.
C6_Witness ==
  /\ Called /\ Before.state_ = "APPROACH" /\ state_ = "STOPPED"
  /\ call.stop_point # call.ego_s
  /\ velocity_factor_ = FactorOf("APPROACH")

\* C7: a path of fewer than 2 points, or with arc-length that does not
\* increase, makes the cycle a no-op in every state: path, state,
\* timestamp, velocity factor, stop reasons and debug record are as before.
C7_MalformedIsNoOp ==
  (Called /\ (Len(call.path_in) < 2 \/ ~Ordered(call.path_in))) =>
    /\ path = call.path_in
    /\ state_ = Before.state_
    /\ stopped_time_ = Before.stopped_time_
    /\ velocity_factor_ = Before.velocity_factor_
    /\ stop_reason = call.reason_in
    /\ debug_data_ = Before.debug_data_

\* A malformed path given in STOPPED after the hold has run out.
C7_Witness ==
  /\ Called /\ Len(call.path_in) = 2 /\ ~Ordered(call.path_in)
  /\ Before.state_ = "STOPPED"
  /\ now - Value(Before.stopped_time_) > Duration

\* C8: in APPROACH with a trajectory but no stop point (no crossing with
\* the extended stop line, or crossing - front overhang - stop margin < 0),
\* path and stop reasons are as given and the state stays APPROACH, also
\* when the vehicle is stopped.
C8_NoStopPoint ==
  (/\ Called /\ call.built /\ Before.state_ = "APPROACH"
   /\ (~HasValue(CrossingOfInput) \/ ShiftedCrossing < 0)) =>
    /\ path = call.path_in
    /\ stop_reason = call.reason_in
    /\ state_ = "APPROACH"
    /\ stopped_time_ = None

\* A stopped vehicle on a path that crosses the stop line too close to
\* its start.
C8_Witness ==
  /\ Called /\ call.built /\ Before.state_ = "APPROACH"
  /\ HasValue(CrossingOfInput) /\ ShiftedCrossing < 0
  /\ call.is_vehicle_stopped

\* C9: with a stop point stop_s the output path has the points of the
\* input in their order, velocity 0 at every arc-length from stop_s on, the
\* input velocity below stop_s, and position and lane id unchanged.
C9_VelocityZeroedFromStop ==
  (Called /\ HasValue(call.stop_point)) => ZeroedFrom(Value(call.stop_point))

\* A stop point strictly inside the path: a point before it, a point after.
C9_Witness ==
  /\ Called /\ HasValue(call.stop_point)
  /\ \E i, j \in 1..Len(call.path_in) :
       Arc(i) < Value(call.stop_point) /\ Arc(j) >= Value(call.stop_point)

\* C10 as stated: a cycle that begins in STOPPED with more than the stop
\* duration elapsed enters START, has no stop point, returns the input
\* velocities and leaves the debug stop pose absent.
C10_Original ==
  (Called /\ Before.state_ = "STOPPED"
     /\ now - Value(Before.stopped_time_) > Duration) =>
    /\ state_ = "START"
    /\ call.stop_point = None
    /\ path = call.path_in
    /\ debug_data_.stop_pose = None

\* C10 amended: a cycle that begins in STOPPED, builds its trajectory and
\* has more than the stop duration elapsed enters START and leaves the
\* debug stop pose absent, but still resolves the stop point ego_s and
\* zeroes the velocity from ego_s on; the stop point is absent and the
\* path returned as given from the next cycle on, the debug stop pose
\* staying absent.
C10_Release ==
  /\ (Called /\ Before.state_ = "STOPPED" /\ call.built
        /\ now - Value(Before.stopped_time_) > Duration) =>
       /\ state_ = "START"
       /\ stopped_time_ = None
       /\ call.stop_point = call.ego_s
       /\ ZeroedFrom(Value(call.ego_s))
       /\ debug_data_.stop_pose = None
  /\ (Called /\ Before.state_ = "START") =>
       /\ call.stop_point = None
       /\ path = call.path_in
  /\ state_ = "START" => debug_data_.stop_pose = None

\* The releasing cycle, its output path differing from its input.
C10_Witness ==
  /\ Called /\ Before.state_ = "STOPPED" /\ call.built
  /\ now - Value(Before.stopped_time_) > Duration
  /\ state_ = "START" /\ path # call.path_in


\* C11: in APPROACH with a trajectory, the stop point is crossing - front
\* overhang - stop margin when that is 0 or more, and absent when it is
\* below 0 or when the trajectory does not cross the extended stop line.
C11_StopMargin ==
  (Called /\ call.built /\ Before.state_ = "APPROACH") =>
    /\ ~HasValue(CrossingOfInput) => call.stop_point = None
    /\ (HasValue(CrossingOfInput) /\ ShiftedCrossing >= 0) =>
         call.stop_point = Some(ShiftedCrossing)
    /\ (HasValue(CrossingOfInput) /\ ShiftedCrossing < 0) => call.stop_point = None

\* The crossing lies exactly front overhang + stop margin from the start
\* of the path: the stop point is 0.
C11_Witness ==
  /\ Called /\ call.built /\ Before.state_ = "APPROACH"
  /\ HasValue(CrossingOfInput) /\ ShiftedCrossing = 0
  /\ call.stop_point = Some(0)

\* C12: the velocity factor a cycle sets carries the distance
\* stop_s - ego_s, with status APPROACHING when the cycle runs in APPROACH
\* and STOPPED when it runs in STOPPED; a cycle in START sets none.
C12_VelocityFactor ==
  Called =>
    /\ (HasValue(call.stop_point) /\ Before.state_ = "APPROACH") =>
         velocity_factor_ = Some([distance |-> Distance, status |-> "APPROACHING"])
    /\ (HasValue(call.stop_point) /\ Before.state_ = "STOPPED") =>
         velocity_factor_ = Some([distance |-> Distance, status |-> "STOPPED"])
    /\ Before.state_ = "START" => velocity_factor_ = Before.velocity_factor_

\* A cycle in STOPPED that reported a factor differing from the one before.
C12_Witness ==
  /\ Called /\ Before.state_ = "STOPPED" /\ HasValue(call.stop_point)
  /\ velocity_factor_ = Some([distance |-> 0, status |-> "STOPPED"])
  /\ Before.velocity_factor_ # velocity_factor_

\* The centre of the stop line, from its end points.
IsCentre(c) ==
  /\ 2 * c.x = stop_line_[1].x + stop_line_[2].x
  /\ 2 * c.y = stop_line_[1].y + stop_line_[2].y

\* C13: a cycle appends to the stop reasons exactly when it resolved a
\* stop point, and then one entry after those given, with the pose at the
\* stop point and the centre of the stop line as its one reference point.
C13_StopReason ==
  Called =>
    /\ ~HasValue(call.stop_point) => stop_reason = call.reason_in
    /\ HasValue(call.stop_point) =>
         /\ Len(stop_reason) = Len(call.reason_in) + 1
         /\ SubSeq(stop_reason, 1, Len(call.reason_in)) = call.reason_in
         /\ stop_reason[Len(stop_reason)].stop_pose =
              [x |-> call.path_in[1].x + Value(call.stop_point), y |-> 0]
         /\ Len(stop_reason[Len(stop_reason)].stop_factor_points) = 1
         /\ IsCentre(stop_reason[Len(stop_reason)].stop_factor_points[1])

\* An entry appended behind the one another module had put there.
C13_Witness ==
  /\ Called /\ HasValue(call.stop_point)
  /\ Len(stop_reason) = 2 /\ stop_reason[1] = ForeignFactor
  /\ stop_reason[2].stop_pose.x > 0


\* C14: after a cycle that resolved a stop point, the debug stop pose is
\* absent if the state is then START and else the stop pose of the entry
\* the cycle appended to the stop reasons; it is absent in every state
\* with state START.
C14_DebugStopPose ==
  /\ (Called /\ HasValue(call.stop_point)) =>
       debug_data_.stop_pose =
         IF state_ = "START" THEN None
         ELSE Some(stop_reason[Len(stop_reason)].stop_pose)
  /\ state_ = "START" => debug_data_.stop_pose = None

\* The releasing cycle: a stop pose in the stop reasons, none in the
\* debug record, which held one before.
C14_Witness ==
  /\ Called /\ HasValue(call.stop_point) /\ state_ = "START"
  /\ HasValue(Before.debug_data_.stop_pose)
  /\ debug_data_.stop_pose = None

\* C15: a cycle that begins in STOPPED with a trajectory enters START
\* exactly when now - stopped timestamp > stop duration, strictly; it then
\* clears the timestamp, and otherwise leaves state and timestamp alone.
C15_StoppedToStart ==
  (Called /\ Before.state_ = "STOPPED" /\ call.built) =>
    /\ state_ = "START" <=> now - Value(Before.stopped_time_) > Duration
    /\ state_ = "START" => stopped_time_ = None
    /\ state_ # "START" =>
         (state_ = "STOPPED" /\ stopped_time_ = Before.stopped_time_)

\* A release one time unit after the stop duration has run out.
C15_Witness ==
  /\ Called /\ Before.state_ = "STOPPED" /\ call.built
  /\ now - Value(Before.stopped_time_) = Duration + 1
  /\ state_ = "START" /\ stopped_time_ = None

\* s is the arc-length of the input point nearest to the ego position, the
\* earliest such point.
IsClosestArc(s) ==
  \E i \in 1..Len(call.path_in) :
    /\ Arc(i) = s
    /\ \A j \in 1..Len(call.path_in) :
         (call.path_in[i].x - call.pose.x) * (call.path_in[i].x - call.pose.x)
           <= (call.path_in[j].x - call.pose.x) * (call.path_in[j].x - call.pose.x)
    /\ \A j \in 1..(i - 1) :
         (call.path_in[j].x - call.pose.x) * (call.path_in[j].x - call.pose.x)
           > (call.path_in[i].x - call.pose.x) * (call.path_in[i].x - call.pose.x)

\* C16: a cycle that begins in STOPPED with a trajectory resolves the stop
\* point ego_s, the arc-length nearest to ego, wherever the stop line
\* crosses; the distance reported is 0 and the velocity is 0 from ego_s on.
C16_StoppedStopsAtEgo ==
  (Called /\ Before.state_ = "STOPPED" /\ call.built) =>
    /\ HasValue(call.stop_point)
    /\ call.stop_point = call.ego_s
    /\ IsClosestArc(Value(call.stop_point))
    /\ velocity_factor_ = Some([distance |-> 0, status |-> "STOPPED"])
    /\ ZeroedFrom(Value(call.ego_s))

\* Ego beyond the start of a path that does not reach the stop line.
C16_Witness ==
  /\ Called /\ Before.state_ = "STOPPED" /\ call.built
  /\ ~HasValue(CrossingOfInput)
  /\ Value(call.stop_point) > 0


\* The path written by lines 66-68 for the last call's inputs when the stop
\* point is s, and the path written when the same step is applied to it
\* again.
ZeroedOnce(s) ==
  Apply(Before, call.path_in, call.reason_in,
        [pose |-> call.pose, is_vehicle_stopped |-> call.is_vehicle_stopped,
         now |-> now],
        Value(Build(call.path_in)),
        [ego_s |-> Value(call.ego_s), stop_point |-> Some(s)]).path

ZeroedTwice(s) ==
  Apply(Before, ZeroedOnce(s), call.reason_in,
        [pose |-> call.pose, is_vehicle_stopped |-> call.is_vehicle_stopped,
         now |-> now],
        Value(Build(ZeroedOnce(s))),
        [ego_s |-> Value(call.ego_s), stop_point |-> Some(s)]).path

\* C17: for every trajectory a call builds and every stop_s in [0, length],
\* setting the velocity to 0 over [stop_s, length] a second time gives the
\* point sequence the first application gave.
C17_ZeroingIdempotent ==
  (Called /\ call.built) =>
    /\ \A s \in 0..Length(Value(Build(call.path_in))) :
         ZeroedTwice(s) = ZeroedOnce(s)
    /\ HasValue(call.stop_point) => ZeroedOnce(Value(call.stop_point)) = path

\* A stop point strictly inside the path, with a point behind it left
\* alone and a point ahead of it changed.
C17_Witness ==
  /\ Called /\ call.built /\ HasValue(call.stop_point)
  /\ 0 < Value(call.stop_point)
  /\ Value(call.stop_point) < Length(Value(Build(call.path_in)))
  /\ path # call.path_in
  /\ path[1] = call.path_in[1]


\* C18: in every state with state START an earlier cycle resolved a stop
\* point with the vehicle stopped and stop_s - ego_s below the hold margin
\* (armed_at holds the clock of the first such cycle), and the clock of a
\* later cycle exceeds that cycle's clock by strictly more than the stop
\* duration.
C18_StartOnlyAfterHold ==
  /\ state_ = "START" => (HasValue(armed_at) /\ now > Value(armed_at) + Duration)
  /\ (Called /\ Before.state_ = "STOPPED" /\ state_ = "START") =>
       (Before.stopped_time_ = armed_at
          /\ now > Value(Before.stopped_time_) + Duration)

\* START entered by a cycle in which the vehicle is no longer stopped.
C18_Witness ==
  /\ Called /\ state_ = "START" /\ Before.state_ = "STOPPED"
  /\ ~call.is_vehicle_stopped
  /\ HasValue(armed_at) /\ now = Value(armed_at) + Duration + 1

\* C19: a cycle that begins and ends in STOPPED, with or without a
\* trajectory, leaves the stopped timestamp alone; in STOPPED the timestamp
\* is the clock of the cycle in which APPROACH -> STOPPED fired.
C19_TimestampKept ==
  /\ (Called /\ Before.state_ = "STOPPED" /\ state_ = "STOPPED") =>
       stopped_time_ = Before.stopped_time_
  /\ (Called /\ Before.state_ = "APPROACH" /\ state_ = "STOPPED") =>
       (stopped_time_ = Some(now) /\ armed_at = Some(now))
  /\ state_ = "STOPPED" => (HasValue(stopped_time_) /\ stopped_time_ = armed_at)

\* A later STOPPED cycle with a trajectory and the vehicle stopped again.
C19_Witness ==
  /\ Called /\ Before.state_ = "STOPPED" /\ state_ = "STOPPED"
  /\ call.built /\ call.is_vehicle_stopped
  /\ now > Value(stopped_time_)


\* C20: with cycles that keep coming, a clock that grows and trajectory
\* construction that succeeds again and again, STOPPED leads to START;
\* a STOPPED cycle whose trajectory construction fails does not release,
\* whatever time has elapsed.
C20_EventuallyReleased ==
  /\ (state_ = "STOPPED" /\ Value(stopped_time_) + Duration < MaxTime)
       ~> (state_ = "START")
  /\ []((Called /\ Before.state_ = "STOPPED" /\ ~call.built) =>
          (state_ = "STOPPED" /\ stopped_time_ = Before.stopped_time_))

\* A STOPPED cycle past the stop duration whose construction fails.
C20_Witness ==
  /\ Called /\ Before.state_ = "STOPPED" /\ ~call.built
  /\ state_ = "STOPPED"
  /\ now > Value(stopped_time_) + Duration

====
